---- MODULE Spec2Model ----
\* A model of smoosh's recompress (src/src/lib.rs): format detection from a
\* 6-byte window, the replayed composite stream, the verbatim copy and the
\* decode/encode pipeline, over abstract readable and writable byte streams.
EXTENDS Integers, Sequences, FiniteSets, TLC

VARIABLES
    pc,          \* position of the invocation in recompress
    input,       \* the bytes the input stream holds
    target,      \* output_type
    calls,       \* invocations of recompress made so far on this input
    prev,        \* outcome of the previous invocation on this input
    stream_errors, \* whether the streams of this run may raise errors
    other,       \* the state of the invocation that is not running now
    cur,         \* which of the two invocations is running now
    rpos,        \* bytes of input consumed so far
    buffer,      \* detect_stream_characteristics: let mut buffer = [0; 6]
    nread,       \* detect_stream_characteristics: _n
    magic,       \* recompress: magic
    input_type,  \* recompress: input_type
    det_reads,   \* read calls detect_stream_characteristics has made
    decompressor, \* recompress: the decode adapter built, or "absent"
    recompressor, \* recompress: the encode adapter built, or "absent"
    mpos,        \* bytes of magic the chain has handed on
    delivered,   \* bytes the composite stream has handed to its reader
    dec,         \* state of the decode adapter
    cbuf,        \* tokio::io::copy: bytes read and not yet written
    read_done,   \* tokio::io::copy: the reader reported end of stream
    need_flush,  \* tokio::io::copy: written since the last flush
    enc,         \* state of the encode adapter
    output,      \* the bytes the output stream holds
    flushes,     \* flush calls made on the writer the pipeline drives
    dirty,       \* a payload write was made after the last flush
    result,      \* "none", "ok" or "err": what recompress returned
    fault,       \* the failure that ended the invocation, or "none"
    pended       \* reads of this invocation that were not ready at once

callVars == <<input, target, calls, prev, stream_errors, other, cur>>
detVars  == <<buffer, nread, magic, input_type, det_reads, decompressor,
             recompressor>>
inVars   == <<rpos, mpos, delivered, dec>>
copyVars == <<cbuf, read_done, need_flush>>
outVars  == <<enc, output, flushes, dirty>>
endVars  == <<result, fault, pended>>
vars == <<pc, callVars, detVars, inVars, copyVars, outVars, endVars>>

--------------------------------------------------------------------------
\* Bounds of the model.
MaxLen == 8      \* longest input stream
MaxChunk == 2    \* most bytes one read of the input returns after detection
MaxCalls == 2    \* invocations on the same input and target
MaxPending == 1  \* reads of one invocation that find the input not ready

Min(a, b) == IF a < b THEN a ELSE b
Prefix(s, n) == SubSeq(s, 1, Min(n, Len(s)))
Suffix(s, n) == SubSeq(s, n + 1, Len(s))

\* pub enum CompressionType
CompressionType == {"Bzip", "Deflate", "Gzip", "Xz", "Zlib", "Zstd", "None"}

\* let mut buffer = [0; 6]
WindowSize == 6

\* fn detect_compression_type(buffer: &[u8; 6]): the match, arm by arm, in
\* the order of the source (0x28 = 40, 0xb5 = 181, 0x2f = 47, 0xfd = 253,
\* 0x1f = 31, 0x8b = 139, 0x78 = 120, 0x9c = 156, 0x37 = 55, 0x7a = 122,
\* 0x58 = 88, 0x5a = 90, 0x42 = 66, 0x68 = 104).
detect_compression_type_zlib_typo(b) ==
    IF b[1] = 40 /\ b[2] = 181 /\ b[3] = 47 /\ b[4] = 253 THEN "Zstd"
    ELSE IF b[1] = 31 /\ b[2] = 139 THEN "Gzip"
    ELSE IF b[1] = 120 /\ b[2] = 1 THEN "Deflate"
    ELSE IF b[1] = 120 /\ b[2] = 90 THEN "Zlib"
    ELSE IF b[1] = 253 /\ b[2] = 55 /\ b[3] = 122 /\ b[4] = 88
            /\ b[5] = 90 /\ b[6] = 0 THEN "Xz"
    ELSE IF b[1] = 66 /\ b[2] = 90 /\ b[3] = 104 THEN "Bzip"
    ELSE "None"

detect_compression_type(b) ==
    IF b[1] = 40 /\ b[2] = 181 /\ b[3] = 47 /\ b[4] = 253 THEN "Zstd"
    ELSE IF b[1] = 31 /\ b[2] = 139 THEN "Gzip"
    ELSE IF b[1] = 120 /\ b[2] = 1 THEN "Deflate"
    ELSE IF b[1] = 120 /\ b[2] = 156 THEN "Zlib"
    ELSE IF b[1] = 253 /\ b[2] = 55 /\ b[3] = 122 /\ b[4] = 88
            /\ b[5] = 90 /\ b[6] = 0 THEN "Xz"
    ELSE IF b[1] = 66 /\ b[2] = 90 /\ b[3] = 104 THEN "Bzip"
    ELSE "None"

\* The arms of that match as data, in the order of the source: the bytes an
\* arm compares (the positions after them are `_`) and the kind it yields.
MatchArms_deflate_wide ==
    << [pat |-> <<40, 181, 47, 253>>, kind |-> "Zstd"],
       [pat |-> <<31, 139>>, kind |-> "Gzip"],
       [pat |-> <<120>>, kind |-> "Deflate"],
       [pat |-> <<120, 156>>, kind |-> "Zlib"],
       [pat |-> <<253, 55, 122, 88, 90, 0>>, kind |-> "Xz"],
       [pat |-> <<66, 90, 104>>, kind |-> "Bzip"] >>

MatchArms ==
    << [pat |-> <<40, 181, 47, 253>>, kind |-> "Zstd"],
       [pat |-> <<31, 139>>, kind |-> "Gzip"],
       [pat |-> <<120, 1>>, kind |-> "Deflate"],
       [pat |-> <<120, 156>>, kind |-> "Zlib"],
       [pat |-> <<253, 55, 122, 88, 90, 0>>, kind |-> "Xz"],
       [pat |-> <<66, 90, 104>>, kind |-> "Bzip"] >>

ArmMatches(arm, b) == \A i \in 1..Len(arm.pat) : b[i] = arm.pat[i]

\* The match with its arms tried in the order order[1], order[2], ...: the
\* first arm that matches decides, `_ => None` comes last.
FirstMatch(order, b) ==
    LET hits == {j \in 1..Len(MatchArms) : ArmMatches(MatchArms[order[j]], b)}
    IN IF hits = {} THEN "None"
       ELSE MatchArms[order[CHOOSE j \in hits : \A k \in hits : j <= k]].kind

\* stream.read(&mut buffer): the first n positions of the zeroed array are
\* overwritten by the bytes read, the others keep their initial 0.
FillBuffer(bytes) ==
    [i \in 1..WindowSize |-> IF i <= Len(bytes) THEN bytes[i] ELSE 0]

--------------------------------------------------------------------------
\* The codecs (async_compression) are external and opaque. They are modelled
\* by one framing for all kinds: a stream of kind k is the kind's magic
\* bytes, then one code symbol per payload byte, a sync marker wherever the
\* encoder was flushed with data pending, and an end marker written only
\* when the encoder is shut down. Code symbols and markers lie outside the
\* byte range, so no raw byte is mistaken for them.
Magic(k) ==
    CASE k = "Zstd" -> <<40, 181, 47, 253>>
      [] k = "Gzip" -> <<31, 139>>
      [] k = "Deflate" -> <<120, 1>>
      [] k = "Zlib" -> <<120, 156>>
      [] k = "Xz" -> <<253, 55, 122, 88, 90, 0>>
      [] k = "Bzip" -> <<66, 90, 104>>
      [] OTHER -> <<>>

CodeBase == 256
SyncMark == 600
EndMark == 601
EncodeBytes(s) == [i \in 1..Len(s) |-> CodeBase + s[i]]

\* Encoder::flush: what the encoder hands to the stream below it.
EncoderFlushBytes(k, e) ==
    (IF e.started THEN <<>> ELSE Magic(k))
        \o EncodeBytes(e.pending)
        \o (IF e.pending = <<>> THEN <<>> ELSE <<SyncMark>>)

NewEncoder == [started |-> FALSE, pending |-> <<>>]
NewDecoder == [st |-> "hdr", h |-> 0]

\* Decoder: one symbol of the compressed stream. r = [d, out].
DecodeSymbol(k, r, b) ==
    CASE r.d.st = "hdr" ->
            IF b # Magic(k)[r.d.h + 1] THEN [r EXCEPT !.d.st = "err"]
            ELSE IF r.d.h + 1 = Len(Magic(k))
                 THEN [r EXCEPT !.d = [st |-> "body", h |-> r.d.h + 1]]
                 ELSE [r EXCEPT !.d.h = r.d.h + 1]
      [] r.d.st = "body" ->
            IF b = EndMark THEN [r EXCEPT !.d.st = "end"]
            ELSE IF b = SyncMark THEN r
            ELSE IF b >= CodeBase /\ b < CodeBase + 256
                 THEN [r EXCEPT !.out = Append(@, b - CodeBase)]
                 ELSE [r EXCEPT !.d.st = "err"]
      [] OTHER -> r   \* after the end marker nothing more is decoded

RECURSIVE DecodeFrom(_, _, _, _)
DecodeFrom(k, r, s, i) ==
    IF i > Len(s) THEN r ELSE DecodeFrom(k, DecodeSymbol(k, r, s[i]), s, i + 1)

\* Decoder::poll_read over one chunk of the stream below it.
DecodeChunk(k, d, chunk) == DecodeFrom(k, [d |-> d, out |-> <<>>], chunk, 1)

\* Decoding a whole stream with a kind-k decoder (None: pass-through).
DecodeAll(k, s) ==
    IF k = "None" THEN [ok |-> TRUE, data |-> s]
    ELSE LET r == DecodeChunk(k, NewDecoder, s)
         IN [ok |-> r.d.st = "end", data |-> r.out]

\* The tests' reference: Encoder::new, write_all(data), flush.
ReferenceEncode(k, data) ==
    EncoderFlushBytes(k, [started |-> FALSE, pending |-> data])

--------------------------------------------------------------------------
\* The input streams of the model: every prefix, up to MaxLen bytes, of the
\* tests' text, of a run of zero bytes, of a well-formed stream of each
\* kind, and of a stream that differs from the xz signature in its sixth
\* byte only.
TestText == <<116, 104, 105, 115, 32, 105, 115, 32, 97, 32, 116, 101, 115, 116>>
Payload == <<116>>
WellFormed(k) == Magic(k) \o EncodeBytes(Payload) \o <<EndMark>>
BaseStreams ==
    {TestText, [i \in 1..Len(TestText) |-> 0], <<253, 55, 122, 88, 90, 1, 1>>}
        \cup {WellFormed(k) : k \in CompressionType \ {"None"}}
Inputs == {Prefix(b, n) : b \in BaseStreams, n \in 0..MaxLen}

NoPrev == [output |-> <<>>, result |-> "none", fault |-> "none", pended |-> 0]

\* The state of an invocation before its first step.
InvocationStart ==
    /\ pc = "Start"
    /\ rpos = 0 /\ mpos = 0 /\ delivered = <<>>
    /\ buffer = FillBuffer(<<>>) /\ nread = 0 /\ magic = <<>>
    /\ input_type = "unset"
    /\ det_reads = 0 /\ decompressor = "absent" /\ recompressor = "absent"
    /\ dec = NewDecoder /\ enc = NewEncoder
    /\ cbuf = <<>> /\ read_done = FALSE /\ need_flush = FALSE
    /\ output = <<>> /\ flushes = 0 /\ dirty = FALSE
    /\ result = "none" /\ fault = "none" /\ pended = 0

\* The variables of one invocation, as a record.
Me ==
    [pc |-> pc, input |-> input, target |-> target, rpos |-> rpos,
     buffer |-> buffer, nread |-> nread, magic |-> magic,
     input_type |-> input_type, det_reads |-> det_reads,
     decompressor |-> decompressor, recompressor |-> recompressor,
     mpos |-> mpos, delivered |-> delivered, dec |-> dec, cbuf |-> cbuf,
     read_done |-> read_done, need_flush |-> need_flush, enc |-> enc,
     output |-> output, flushes |-> flushes, dirty |-> dirty,
     result |-> result, fault |-> fault, pended |-> pended]

\* An invocation that has not been polled yet, as a record.
Fresh(in, t) ==
    [pc |-> "Start", input |-> in, target |-> t, rpos |-> 0,
     buffer |-> FillBuffer(<<>>), nread |-> 0, magic |-> <<>>,
     input_type |-> "unset", det_reads |-> 0,
     decompressor |-> "absent", recompressor |-> "absent",
     mpos |-> 0, delivered |-> <<>>, dec |-> NewDecoder, cbuf |-> <<>>,
     read_done |-> FALSE, need_flush |-> FALSE, enc |-> NewEncoder,
     output |-> <<>>, flushes |-> 0, dirty |-> FALSE,
     result |-> "none", fault |-> "none", pended |-> 0]

\* No second invocation: a single recompress call runs alone.
Alone == [pc |-> "absent"]

Init ==
    /\ input \in Inputs
    /\ target \in CompressionType
    /\ calls = 1
    /\ prev = NoPrev
    /\ stream_errors \in BOOLEAN
    /\ other = Alone /\ cur = 1
    /\ InvocationStart

\* Whether a read, write or flush of this step raises an error.
FailChoices == IF stream_errors THEN BOOLEAN ELSE {FALSE}

\* `?` on an Err: recompress returns the error at once.
Fail(kind) == pc' = "Failed" /\ result' = "err" /\ fault' = kind

\* AsyncRead::read on the input: 0 bytes at end of stream, otherwise any
\* number of bytes from 1 to what the buffer and the stream allow.
ReadSizes(cap) ==
    IF rpos = Len(input) THEN {0} ELSE 1..Min(cap, Len(input) - rpos)

\* The composite stream: what is left of magic, then what is left of input.
Composite == Suffix(magic, mpos) \o Suffix(input, rpos)

\* Line 59: Ok((kind, Vec::from(buffer))): the whole window is returned,
\* whatever the count n the read returned.
ReturnedPrefix_bytes_read(buf, n) == SubSeq(buf, 1, n)

ReturnedPrefix(buf, n) == buf

\* Line 21: if input_type == output_type
FastPath_never(kind, t) == FALSE

FastPath(kind, t) == kind = t

\* Line 19: magic.chain(input): the chain reads magic until it is used up.
ChainFirst_dropped == FALSE

ChainFirst == mpos < Len(magic)

\* recompress is called.
Call ==
    /\ pc = "Start"
    /\ pc' = "Detecting"
    /\ UNCHANGED <<callVars, detVars, inVars, copyVars, outVars, endVars>>

\* Lines 18-21: detect_stream_characteristics (one read into the zeroed
\* window, classification of the whole window, Vec::from(buffer)), the chain
\* and the choice of the path.
DetectRead ==
    /\ pc = "Detecting"
    /\ det_reads' = det_reads + 1
    /\ \E fail \in FailChoices :
        IF fail
        THEN /\ Fail("read")
             /\ UNCHANGED <<buffer, nread, magic, input_type, decompressor,
                            recompressor, rpos>>
        ELSE \E n \in ReadSizes(WindowSize) :
             /\ nread' = n
             /\ rpos' = n
             /\ buffer' = FillBuffer(SubSeq(input, 1, n))
             /\ input_type' = detect_compression_type(buffer')
             /\ magic' = ReturnedPrefix(buffer', n)
             /\ IF FastPath(input_type', target)
                THEN /\ pc' = "CopyingVerbatim"
                     /\ decompressor' = "absent"
                     /\ recompressor' = "absent"
                ELSE /\ pc' = "Transcoding"
                     /\ decompressor' = input_type'
                     /\ recompressor' = target
             /\ UNCHANGED <<result, fault>>
    /\ UNCHANGED <<callVars, mpos, delivered, dec, copyVars, outVars, pended>>

Copying == pc \in {"CopyingVerbatim", "Transcoding"}
\* A decoder wraps the composite stream / an encoder wraps the output.
Decoding == decompressor \notin {"absent", "None"}
Encoding == recompressor \notin {"absent", "None"}
DecoderAtEnd == Decoding /\ dec.st = "end"

\* The reader of the copy takes one chunk off the composite stream.
Deliver(chunk) ==
    /\ delivered' = delivered \o chunk
    /\ IF Decoding
       THEN LET r == DecodeChunk(input_type, dec, chunk)
            IN /\ dec' = r.d
               /\ IF r.d.st = "err"
                  THEN cbuf' = <<>> /\ Fail("decode")
                  ELSE cbuf' = r.out /\ UNCHANGED <<pc, result, fault>>
       ELSE /\ dec' = dec
            /\ cbuf' = chunk
            /\ UNCHANGED <<pc, result, fault>>

\* tokio::io::copy, buffer empty: poll_read of the reader.
CopyRead_eof_ignored ==
    /\ Copying /\ cbuf = <<>> /\ ~read_done
    /\ IF DecoderAtEnd
       THEN /\ read_done' = TRUE
            /\ UNCHANGED <<inVars, cbuf, pc, result, fault>>
       ELSE IF ChainFirst
       THEN /\ Deliver(Suffix(magic, mpos))
            /\ mpos' = Len(magic)
            /\ UNCHANGED <<rpos, read_done>>
       ELSE /\ mpos' = mpos
            /\ \E fail \in FailChoices :
                IF fail
                THEN /\ Fail("read")
                     /\ UNCHANGED <<rpos, delivered, dec, cbuf, read_done>>
                ELSE \E n \in ReadSizes(MaxChunk) :
                     IF n = 0
                     THEN /\ UNCHANGED <<rpos, delivered, dec, cbuf>>
                          /\ IF Decoding
                             THEN Fail("decode") /\ read_done' = read_done
                             ELSE /\ read_done' = read_done
                                  /\ UNCHANGED <<pc, result, fault>>
                     ELSE /\ Deliver(SubSeq(input, rpos + 1, rpos + n))
                          /\ rpos' = rpos + n
                          /\ read_done' = read_done
    /\ UNCHANGED <<callVars, detVars, need_flush, outVars, pended>>

CopyRead ==
    /\ Copying /\ cbuf = <<>> /\ ~read_done
    /\ IF DecoderAtEnd
       THEN /\ read_done' = TRUE
            /\ UNCHANGED <<inVars, cbuf, pc, result, fault>>
       ELSE IF ChainFirst
       THEN /\ Deliver(Suffix(magic, mpos))
            /\ mpos' = Len(magic)
            /\ UNCHANGED <<rpos, read_done>>
       ELSE /\ mpos' = mpos
            /\ \E fail \in FailChoices :
                IF fail
                THEN /\ Fail("read")
                     /\ UNCHANGED <<rpos, delivered, dec, cbuf, read_done>>
                ELSE \E n \in ReadSizes(MaxChunk) :
                     IF n = 0
                     THEN /\ UNCHANGED <<rpos, delivered, dec, cbuf>>
                          /\ IF Decoding
                             THEN Fail("decode") /\ read_done' = read_done
                             ELSE /\ read_done' = TRUE
                                  /\ UNCHANGED <<pc, result, fault>>
                     ELSE /\ Deliver(SubSeq(input, rpos + 1, rpos + n))
                          /\ rpos' = rpos + n
                          /\ read_done' = read_done
    /\ UNCHANGED <<callVars, detVars, need_flush, outVars, pended>>

\* tokio::io::copy, buffer empty and the input not ready: flush what was
\* written, then wait.
CopyPending ==
    /\ Copying /\ cbuf = <<>> /\ ~read_done
    /\ ~DecoderAtEnd /\ mpos = Len(magic)
    /\ pended < MaxPending
    /\ pended' = pended + 1
    /\ IF need_flush
       THEN \E fail \in FailChoices :
            /\ flushes' = flushes + 1
            /\ IF fail
               THEN Fail("flush") /\ UNCHANGED <<enc, output, dirty, need_flush>>
               ELSE /\ need_flush' = FALSE
                    /\ dirty' = FALSE
                    /\ IF Encoding
                       THEN /\ output' = output \o EncoderFlushBytes(target, enc)
                            /\ enc' = [started |-> TRUE, pending |-> <<>>]
                       ELSE UNCHANGED <<enc, output>>
                    /\ UNCHANGED <<pc, result, fault>>
       ELSE UNCHANGED <<outVars, need_flush, pc, result, fault>>
    /\ UNCHANGED <<callVars, detVars, inVars, cbuf, read_done>>

\* CopyWrite with the error of the write dropped instead of returned.
CopyWrite_error_dropped ==
    /\ Copying /\ cbuf # <<>>
    /\ \E fail \in FailChoices :
        IF fail
        THEN /\ fault' = "write"
             /\ cbuf' = <<>>
             /\ UNCHANGED <<pc, result, need_flush, enc, output, dirty>>
        ELSE /\ IF Encoding
                THEN enc' = [enc EXCEPT !.pending = @ \o cbuf] /\ output' = output
                ELSE output' = output \o cbuf /\ enc' = enc
             /\ cbuf' = <<>>
             /\ need_flush' = TRUE
             /\ dirty' = TRUE
             /\ UNCHANGED <<pc, result, fault>>
    /\ UNCHANGED <<callVars, detVars, inVars, read_done, flushes, pended>>

\* tokio::io::copy, buffer filled: write it to the writer.
CopyWrite ==
    /\ Copying /\ cbuf # <<>>
    /\ \E fail \in FailChoices :
        IF fail
        THEN Fail("write") /\ UNCHANGED <<cbuf, need_flush, enc, output, dirty>>
        ELSE /\ IF Encoding
                THEN enc' = [enc EXCEPT !.pending = @ \o cbuf] /\ output' = output
                ELSE output' = output \o cbuf /\ enc' = enc
             /\ cbuf' = <<>>
             /\ need_flush' = TRUE
             /\ dirty' = TRUE
             /\ UNCHANGED <<pc, result, fault>>
    /\ UNCHANGED <<callVars, detVars, inVars, read_done, flushes, pended>>

\* CopyFinish returning without the flush.
CopyFinish_no_flush ==
    /\ Copying /\ cbuf = <<>> /\ read_done
    /\ IF pc = "CopyingVerbatim"
       THEN pc' = "Done" /\ result' = "ok"
       ELSE pc' = "Finalizing" /\ result' = result
    /\ UNCHANGED <<callVars, detVars, inVars, copyVars, outVars, fault, pended>>

\* tokio::io::copy, all written and end of stream seen: flush the writer
\* and return; line 23 returns Ok(()) on the verbatim path.
CopyFinish ==
    /\ Copying /\ cbuf = <<>> /\ read_done
    /\ flushes' = flushes + 1
    /\ \E fail \in FailChoices :
        IF fail
        THEN Fail("flush") /\ UNCHANGED <<enc, output, dirty, need_flush>>
        ELSE /\ need_flush' = FALSE
             /\ dirty' = FALSE
             /\ IF Encoding
                THEN /\ output' = output \o EncoderFlushBytes(target, enc)
                     /\ enc' = [started |-> TRUE, pending |-> <<>>]
                ELSE UNCHANGED <<enc, output>>
             /\ IF pc = "CopyingVerbatim"
                THEN pc' = "Done" /\ result' = "ok"
                ELSE pc' = "Finalizing" /\ result' = result
             /\ fault' = fault
    /\ UNCHANGED <<callVars, detVars, inVars, cbuf, read_done, pended>>

\* Finalize looping back into the copy when the flush fails.
Finalize_retries ==
    /\ pc = "Finalizing"
    /\ flushes' = flushes + 1
    /\ \E fail \in FailChoices :
        IF fail
        THEN /\ pc' = "Transcoding"
             /\ UNCHANGED <<enc, output, dirty, result, fault>>
        ELSE /\ dirty' = FALSE
             /\ IF Encoding
                THEN /\ output' = output \o EncoderFlushBytes(target, enc)
                     /\ enc' = [started |-> TRUE, pending |-> <<>>]
                ELSE UNCHANGED <<enc, output>>
             /\ pc' = "Done" /\ result' = "ok" /\ fault' = fault
    /\ UNCHANGED <<callVars, detVars, inVars, copyVars, pended>>

\* Lines 47-49: recompressor.flush().await?; Ok(())
Finalize ==
    /\ pc = "Finalizing"
    /\ flushes' = flushes + 1
    /\ \E fail \in FailChoices :
        IF fail
        THEN Fail("flush") /\ UNCHANGED <<enc, output, dirty>>
        ELSE /\ dirty' = FALSE
             /\ IF Encoding
                THEN /\ output' = output \o EncoderFlushBytes(target, enc)
                     /\ enc' = [started |-> TRUE, pending |-> <<>>]
                ELSE UNCHANGED <<enc, output>>
             /\ pc' = "Done" /\ result' = "ok" /\ fault' = fault
    /\ UNCHANGED <<callVars, detVars, inVars, copyVars, pended>>

\* The caller invokes recompress again on a fresh stream of the same bytes
\* and a fresh output, with the same target. Repetition is followed only
\* after an invocation whose streams were always ready and raised no error.
Reinvoke ==
    /\ pc \in {"Done", "Failed"}
    /\ fault \in {"none", "decode"} /\ pended = 0
    /\ calls < MaxCalls
    /\ calls' = calls + 1
    /\ prev' = [output |-> output, result |-> result, fault |-> fault,
                pended |-> pended]
    /\ UNCHANGED <<input, target, stream_errors, other, cur>>
    /\ pc' = "Start"
    /\ det_reads' = 0 /\ decompressor' = "absent" /\ recompressor' = "absent"
    /\ rpos' = 0 /\ mpos' = 0 /\ delivered' = <<>>
    /\ buffer' = FillBuffer(<<>>) /\ nread' = 0 /\ magic' = <<>>
    /\ input_type' = "unset"
    /\ dec' = NewDecoder /\ enc' = NewEncoder
    /\ cbuf' = <<>> /\ read_done' = FALSE /\ need_flush' = FALSE
    /\ output' = <<>> /\ flushes' = 0 /\ dirty' = FALSE
    /\ result' = "none" /\ fault' = "none" /\ pended' = 0

Next ==
    \/ Call
    \/ DetectRead
    \/ CopyRead
    \/ CopyPending
    \/ CopyWrite
    \/ CopyFinish
    \/ Finalize
    \/ Reinvoke

Spec == Init /\ [][Next]_vars

\* Two invocations on distinct input/output pairs, driven by one executor.
\* The variables hold the invocation being polled (number cur), `other` holds
\* the suspended one. Every state lies between two steps of an invocation,
\* that is at an await, so the executor may turn to the other one anywhere.
PairInputs1 == {Prefix(WellFormed("Gzip"), MaxLen), Prefix(TestText, MaxLen)}
PairInputs2 == {Prefix(WellFormed("Zlib"), MaxLen)}

InitPair ==
    /\ input \in PairInputs1
    /\ target \in {"Gzip", "None"}
    /\ calls = 1
    /\ prev = NoPrev
    /\ stream_errors \in BOOLEAN
    /\ \E in2 \in PairInputs2 : other = Fresh(in2, "Bzip")
    /\ cur = 1
    /\ InvocationStart

\* The executor suspends the running invocation and resumes the other one;
\* as a mutant, the returned prefix is one buffer shared by all invocations.
Switch_shared_magic ==
    /\ other.pc # "absent"
    /\ cur' = 3 - cur
    /\ other' = Me
    /\ pc' = other.pc /\ input' = other.input
    /\ target' = other.target /\ rpos' = other.rpos
    /\ buffer' = other.buffer /\ nread' = other.nread
    /\ magic' = magic /\ input_type' = other.input_type
    /\ det_reads' = other.det_reads /\ decompressor' = other.decompressor
    /\ recompressor' = other.recompressor /\ mpos' = other.mpos
    /\ delivered' = other.delivered /\ dec' = other.dec
    /\ cbuf' = other.cbuf /\ read_done' = other.read_done
    /\ need_flush' = other.need_flush /\ enc' = other.enc
    /\ output' = other.output /\ flushes' = other.flushes
    /\ dirty' = other.dirty /\ result' = other.result
    /\ fault' = other.fault /\ pended' = other.pended
    /\ UNCHANGED <<calls, prev, stream_errors>>

Switch ==
    /\ other.pc # "absent"
    /\ cur' = 3 - cur
    /\ other' = Me
    /\ pc' = other.pc /\ input' = other.input
    /\ target' = other.target /\ rpos' = other.rpos
    /\ buffer' = other.buffer /\ nread' = other.nread
    /\ magic' = other.magic /\ input_type' = other.input_type
    /\ det_reads' = other.det_reads /\ decompressor' = other.decompressor
    /\ recompressor' = other.recompressor /\ mpos' = other.mpos
    /\ delivered' = other.delivered /\ dec' = other.dec
    /\ cbuf' = other.cbuf /\ read_done' = other.read_done
    /\ need_flush' = other.need_flush /\ enc' = other.enc
    /\ output' = other.output /\ flushes' = other.flushes
    /\ dirty' = other.dirty /\ result' = other.result
    /\ fault' = other.fault /\ pended' = other.pended
    /\ UNCHANGED <<calls, prev, stream_errors>>

NextPair ==
    \/ Call
    \/ DetectRead
    \/ CopyRead
    \/ CopyPending
    \/ CopyWrite
    \/ CopyFinish
    \/ Finalize
    \/ Switch

SpecPair == InitPair /\ [][NextPair]_vars

\* One invocation whose pending reads, writes and flushes are eventually
\* served: every step of recompress that can be taken is eventually taken.
\* A read that is not ready (CopyPending) is a choice of the stream, not a
\* step the invocation is owed.
NextLive ==
    \/ Call
    \/ DetectRead
    \/ CopyRead
    \/ CopyPending
    \/ CopyWrite
    \/ CopyFinish
    \/ Finalize

SpecLive ==
    /\ Init
    /\ [][NextLive]_vars
    /\ WF_vars(Call) /\ WF_vars(DetectRead) /\ WF_vars(CopyRead)
    /\ WF_vars(CopyWrite) /\ WF_vars(CopyFinish) /\ WF_vars(Finalize)

--------------------------------------------------------------------------
\* detect_compression_type alone, over 6-byte windows: at each position every
\* byte some signature has there, and a byte no signature has there.
Windows ==
    {<<b1, b2, b3, b4, b5, b6>> :
        b1 \in {40, 31, 120, 253, 66, 0},
        b2 \in {181, 139, 1, 156, 55, 90, 0},
        b3 \in {47, 122, 104, 0},
        b4 \in {253, 88, 0},
        b5 \in {90, 0},
        b6 \in {0, 1}}

InitDetect ==
    /\ buffer \in Windows
    /\ pc = "Classify"
    /\ input = <<>> /\ target = "None" /\ calls = 1 /\ prev = NoPrev
    /\ stream_errors = FALSE /\ other = Alone /\ cur = 1
    /\ det_reads = 0 /\ decompressor = "absent" /\ recompressor = "absent"
    /\ rpos = 0 /\ mpos = 0 /\ delivered = <<>>
    /\ nread = 0 /\ magic = <<>> /\ input_type = "unset"
    /\ dec = NewDecoder /\ enc = NewEncoder
    /\ cbuf = <<>> /\ read_done = FALSE /\ need_flush = FALSE
    /\ output = <<>> /\ flushes = 0 /\ dirty = FALSE
    /\ result = "none" /\ fault = "none" /\ pended = 0

\* Line 57: let kind = detect_compression_type(&buffer)
ClassifyWindow ==
    /\ pc = "Classify"
    /\ input_type' = detect_compression_type(buffer)
    /\ pc' = "Classified"
    /\ UNCHANGED <<callVars, buffer, nread, magic, det_reads, decompressor,
                   recompressor, inVars, copyVars, outVars, endVars>>

SpecDetect == InitDetect /\ [][ClassifyWindow]_vars

--------------------------------------------------------------------------
\* The signature table of the specification, row by row.
SignatureTable ==
    { [kind |-> "Zstd", sig |-> <<40, 181, 47, 253>>],
      [kind |-> "Gzip", sig |-> <<31, 139>>],
      [kind |-> "Deflate", sig |-> <<120, 1>>],
      [kind |-> "Zlib", sig |-> <<120, 156>>],
      [kind |-> "Xz", sig |-> <<253, 55, 122, 88, 90, 0>>],
      [kind |-> "Bzip", sig |-> <<66, 90, 104>>] }

\* The rows whose non-wildcard bytes all lie within the first n bytes of w
\* and equal them.
RowsMatching(w, n) ==
    {row \in SignatureTable :
        /\ Len(row.sig) <= n
        /\ \A i \in 1..Len(row.sig) : w[i] = row.sig[i]}

Detected == input_type # "unset"
Terminal == pc \in {"Done", "Failed"}
StreamError == {"read", "write", "flush"}

\* C1 (as claimed): once detection has returned, the bytes already handed on
\* by the composite stream followed by what it still holds (the rest of the
\* returned prefix, then the unread input) are exactly the input.
C1_CompositeIsInput ==
    Detected => delivered \o Composite = input

\* C2 (as claimed): a successful invocation whose target is the detected
\* kind leaves exactly the input bytes in the output.
C2_Identity ==
    (pc = "Done" /\ input_type = target) => output = input

\* C3 (as claimed): on success the writer was flushed exactly once, and no
\* payload write followed that flush.
C3_FlushExactlyOnce ==
    result = "ok" => (flushes = 1 /\ ~dirty)

\* C3 (amended): on success the writer was flushed at least once (once by
\* the copy at end of input, once more by the explicit flush on the
\* transcoding path, and once for each read that found the input not ready
\* with unflushed writes), and no payload write followed the last flush.
C3_FlushedAfterLastWrite ==
    result = "ok" =>
        /\ ~dirty
        /\ flushes >= (IF input_type = target THEN 1 ELSE 2)
        /\ flushes <= (IF input_type = target THEN 1 ELSE 2) + pended

\* C3 witness: a successful transcoding whose copy and explicit flush both
\* ran after the payload was written.
C3_Witness ==
    result = "ok" /\ input_type # target /\ flushes = 2 /\ output # <<>>

\* C4 (as claimed, for the inputs whose detection read filled the window):
\* when recompress succeeds on an input whose payload is defined, a decoder
\* of the target kind decodes the output completely, end marker included,
\* and yields that payload.
C4_RoundTrip ==
    (pc = "Done" /\ nread = WindowSize /\ DecodeAll(input_type, input).ok) =>
        /\ DecodeAll(target, output).ok
        /\ DecodeAll(target, output).data = DecodeAll(input_type, input).data

\* C5: detect_compression_type returns the kind of the table row the window
\* matches, and None when the window matches no row.
C5_DetectionTable ==
    pc = "Classified" =>
        IF RowsMatching(buffer, WindowSize) = {}
        THEN input_type = "None"
        ELSE input_type \in {row.kind : row \in RowsMatching(buffer, WindowSize)}

\* C5 witness: a window carrying the zlib signature has been classified.
C5_Witness ==
    pc = "Classified" /\ buffer[1] = 120 /\ buffer[2] = 156
        /\ input_type = "Zlib"

\* C6 (as claimed): when the detection read obtained fewer than 6 bytes, a
\* kind other than None is returned only if a row of that kind lies within
\* the bytes read and matches them.
C6_ShortReadNeedsWholeSignature ==
    (Detected /\ nread < WindowSize /\ input_type # "None") =>
        input_type \in {row.kind : row \in RowsMatching(input, nread)}

\* C7 (as claimed): an input detected as None, transcoded to another kind
\* with every read ready at once, yields what the reference encoder yields
\* for the whole input.
C7_NoneInputIsEncoded ==
    (pc = "Done" /\ input_type = "None" /\ target # "None" /\ pended = 0) =>
        output = ReferenceEncode(target, input)

\* C8: a failure of any step ends the invocation in Failed with an error
\* result in that very step, and from Failed the invocation reads nothing,
\* writes nothing, flushes nothing and never turns to success.
C8_FailureAborts ==
    [][/\ fault' # "none" => (pc' = "Failed" /\ result' = "err")
       /\ (pc = "Failed" /\ calls' = calls) =>
            UNCHANGED <<pc, result, rpos, mpos, delivered, enc, output, flushes>>
      ]_vars

\* C8 witness: a write failed midway, with output already written and
\* input still unread.
C8_Witness ==
    pc = "Failed" /\ fault = "write" /\ output # <<>> /\ rpos < Len(input)

NonTerminal == {"Start", "Detecting", "CopyingVerbatim", "Transcoding", "Finalizing"}
ToFailed == {<<s, "Failed">> : s \in NonTerminal}

\* C9 (as claimed): within one invocation pc moves only along
\* Start -> Detecting -> (CopyingVerbatim | Transcoding) -> Finalizing ->
\* Done, or to Failed from a non-terminal state.
C9_StateMachine ==
    [][calls' = calls =>
        \/ pc' = pc
        \/ <<pc, pc'>> \in
              { <<"Start", "Detecting">>,
                <<"Detecting", "CopyingVerbatim">>,
                <<"Detecting", "Transcoding">>,
                <<"CopyingVerbatim", "Finalizing">>,
                <<"Transcoding", "Finalizing">>,
                <<"Finalizing", "Done">> } \cup ToFailed
      ]_vars

\* C9 (amended): as claimed, except that the verbatim path goes from
\* CopyingVerbatim straight to Done; only the transcoding path passes
\* through Finalizing.
C9_StateMachineAmended ==
    [][calls' = calls =>
        \/ pc' = pc
        \/ <<pc, pc'>> \in
              { <<"Start", "Detecting">>,
                <<"Detecting", "CopyingVerbatim">>,
                <<"Detecting", "Transcoding">>,
                <<"CopyingVerbatim", "Done">>,
                <<"Transcoding", "Finalizing">>,
                <<"Finalizing", "Done">> } \cup ToFailed
      ]_vars

\* C9 witness: the verbatim path has reached Done, with its single flush.
C9_Witness ==
    pc = "Done" /\ input_type = target /\ flushes = 1 /\ output # <<>>

\* C11 (as claimed): the detector consumes at most 6 bytes and the prefix it
\* returns is exactly the bytes it consumed, as many as the read returned.
C11_PrefixIsBytesRead ==
    Detected =>
        /\ nread <= WindowSize
        /\ Len(magic) = nread
        /\ magic = SubSeq(input, 1, nread)

\* The state of invocation i of a pair, running or suspended.
View(i) == IF cur = i THEN Me ELSE other

\* C12: interleaved at their awaits, two invocations on distinct input/output
\* pairs do not interfere: a step changes the state (position, adapters,
\* output bytes, result) of the invocation that takes it and of no other, and
\* suspending and resuming changes the state of neither, so each invocation
\* goes through a run it has alone.
C12_NoInterference ==
    [][\A i \in {1, 2} :
            View(i)' = View(i) \/ (cur = i /\ cur' = i /\ other' = other)]_vars

\* C12 witness: both invocations have been suspended and resumed in the
\* middle of their copies, each with bytes written and more to come.
C12_Witness ==
    /\ cur = 1 /\ other.pc = "Transcoding" /\ other.output # <<>>
    /\ pc \in {"Transcoding", "CopyingVerbatim"} /\ output # <<>>
    /\ rpos < Len(input) /\ other.rpos < Len(other.input)

\* C13: before detection has returned nothing has been handed to a decoder
\* or to the copy and nothing has been written; afterwards the composite
\* stream hands on the bytes detection consumed (as the head of the
\* returned prefix) before any byte of the remaining input, in order.
C13_DetectionFirst ==
    /\ pc \in {"Start", "Detecting"} =>
            /\ delivered = <<>> /\ cbuf = <<>> /\ output = <<>>
            /\ dec = NewDecoder /\ enc = NewEncoder /\ mpos = 0
    /\ Detected =>
            /\ SubSeq(magic, 1, nread) = SubSeq(input, 1, nread)
            /\ delivered = Prefix(magic \o Suffix(input, nread), Len(delivered))
            /\ rpos > nread => mpos = Len(magic)

\* C13 witness: after a short detection read, the composite stream has
\* handed on the prefix and then bytes of the remaining input.
C13_Witness ==
    Detected /\ nread \in 1..5 /\ Len(delivered) > Len(magic) /\ output # <<>>

\* C14: after detection, equal kinds mean no adapter and a verbatim copy of
\* what the composite stream handed on; different kinds mean the decode
\* adapter of the detected kind and the encode adapter of the target.
C14_PathByEquality ==
    Detected =>
        IF input_type = target
        THEN /\ decompressor = "absent" /\ recompressor = "absent"
             /\ pc \in {"CopyingVerbatim", "Done", "Failed"}
             /\ output \o cbuf = delivered
        ELSE /\ decompressor = input_type /\ recompressor = target
             /\ pc \in {"Transcoding", "Finalizing", "Done", "Failed"}

\* C14 witness: a gzip stream with target Gzip was copied verbatim to the
\* end without any adapter.
C14_Witness ==
    /\ pc = "Done" /\ input_type = "Gzip" /\ target = "Gzip"
    /\ decompressor = "absent" /\ output # <<>>

\* C15: at most one arm of the match matches a window, and the match yields
\* the kind detect_compression_type yields whatever the order of its arms.
C15_OrderIndependent ==
    pc = "Classified" =>
        /\ Cardinality({j \in 1..Len(MatchArms) :
                            ArmMatches(MatchArms[j], buffer)}) <= 1
        /\ \A order \in Permutations(1..Len(MatchArms)) :
                FirstMatch(order, buffer) = input_type

\* C15 witness: a window matching the last arm of the source has been
\* classified, and an order that tries that arm first agrees.
C15_Witness ==
    /\ pc = "Classified" /\ input_type = "Bzip"
    /\ FirstMatch([j \in 1..6 |-> 7 - j], buffer) = "Bzip"

\* C16: with every pending read, write and flush eventually served, an
\* invocation on a finite input eventually ends, Done or Failed; and it ends
\* Done unless a stream error or a decode error occurred.
C16_Terminates ==
    /\ (pc = "Start") ~> Terminal
    /\ (pc = "Start") ~> (pc = "Done" \/ fault # "none")

\* C16 witness: an invocation on streams that raise no error, whose input
\* was not ready at some read, has ended Done with all of its input read.
C16_Witness ==
    /\ pc = "Done" /\ ~stream_errors /\ fault = "none"
    /\ pended > 0 /\ rpos = Len(input) /\ Len(input) > WindowSize

\* C17: detection makes one read and, when the read succeeds, returns all 6
\* positions of the window: the n bytes read, then zeros; the kind is that
\* of this zero-padded window.
C17_ZeroPaddedWindow ==
    /\ pc \notin {"Start", "Detecting", "Classify", "Classified"} => det_reads = 1
    /\ Detected =>
            /\ Len(magic) = WindowSize
            /\ \A i \in 1..WindowSize :
                    magic[i] = IF i <= nread THEN input[i] ELSE 0
            /\ input_type = detect_compression_type(
                                FillBuffer(SubSeq(input, 1, nread)))

\* C17 witness: a read of 3 bytes, with more input behind it, returned a
\* prefix whose last three positions are zero.
C17_Witness ==
    /\ Detected /\ nread = 3 /\ Len(input) > 3 /\ input[1] # 0
    /\ magic[4] = 0 /\ magic[6] = 0

\* C10 (as claimed): a second invocation on the same input and target, both
\* served without stream error and with every read ready at once, returns
\* what the first returned and, on success, leaves the same output.
C10_Determinism ==
    (Terminal /\ prev.result # "none" /\ fault \notin StreamError /\ pended = 0) =>
        /\ result = prev.result
        /\ result = "ok" => output = prev.output

====
